---- MODULE Spec2Model ----
(***************************************************************************)
(* NextGenFitness backend.                                                 *)
(*                                                                         *)
(*   SpecSvc   - the Flask service of NextGenFItness.py: init_db, signup,  *)
(*               login, forgot-password, reset-password, one request at a  *)
(*               time, against the SQLite file NextGenFitness.db.          *)
(*   SpecRace  - the same service with signup requests handled by threads  *)
(*               that interleave between their SQL statements.             *)
(*   SpecAdmin - the interactive administration tool of db_manager.py:     *)
(*               one NextGenFitnessDB connection driven by the menus.      *)
(*                                                                         *)
(* Both share the module's variables; each specification keeps the other   *)
(* half at its initial value.                                              *)
(***************************************************************************)
EXTENDS Integers, Sequences, FiniteSets, TLC

VARIABLES
    catalog,    \* service: names of the tables present in NextGenFitness.db
    users,      \* service: rows of table users (the table init_db creates)
    User,       \* service: rows of table User (the table the handlers query)
    last,       \* service: the last request with the response it received
    signups,    \* service: the signup requests handled so far, with their outcome
    schema,     \* service: the constraints table User was created with
    threads,    \* service: per request thread, the signup it is in the middle of
    db,         \* admin: the store as self.conn sees it, table name -> table
    disk,       \* admin: the committed store
    in_transaction, \* admin: self.conn.in_transaction
    screen,     \* admin: the menu the dispatcher is at
    out,        \* admin: the last operation, its inputs and what it printed
    faulted     \* admin: the engine has raised an error inside a rebuild; a run
                \* is followed up to the state it leaves the menu in

svcVars == <<catalog, users, User, last, signups, schema, threads>>

adminVars == <<db, disk, in_transaction, screen, out, faulted>>

vars == <<catalog, users, User, last, signups, schema, threads, db, disk,
          in_transaction, screen, out, faulted>>

(***************************************************************************)
(* Bounds and input sets                                                   *)
(***************************************************************************)
MaxSignups == 2

Usernames == {"alice", "bob"}
Emails    == {"a@x", "b@x"}
Passwords == {"pw1", "pw2"}
Salts     == {"s1", "s2"}
\* a request field that is absent or empty: data.get(...) is None or ''
Missing   == ""

(***************************************************************************)
(* Helpers                                                                 *)
(***************************************************************************)
RECURSIVE Digits(_)
\* decimal digits of n, most significant first (str(n))
Digits(n) == IF n < 10 THEN <<n>> ELSE Append(Digits(n \div 10), n % 10)

RECURSIVE ZeroPad(_, _)
ZeroPad(ds, width) == IF Len(ds) >= width THEN ds ELSE ZeroPad(<<0>> \o ds, width)

RECURSIVE DigitsToInt(_)
DigitsToInt(ds) ==
    IF ds = <<>> THEN 0
    ELSE 10 * DigitsToInt(SubSeq(ds, 1, Len(ds) - 1)) + ds[Len(ds)]

\* width of the zero padding in f"U{new_num:03d}"
IdPadWidth == 3

\* a user_id 'U' + digits is held as [prefix |-> "U", digits |-> <<...>>]
FormatUserId(n) == [prefix |-> "U", digits |-> ZeroPad(Digits(n), IdPadWidth)]

\* int(last[0][1:])
ParseUserId(id) == DigitsToInt(id.digits)

RECURSIVE DigitsLess(_, _)
\* a < b in SQLite's BINARY collation: bytewise, a proper prefix sorts first
DigitsLess(a, b) ==
    IF a = <<>> THEN b # <<>>
    ELSE IF b = <<>> THEN FALSE
    ELSE IF a[1] # b[1] THEN a[1] < b[1]
    ELSE DigitsLess(Tail(a), Tail(b))

UserIdLess(a, b) == DigitsLess(a.digits, b.digits)

\* werkzeug generate_password_hash: a salted hash of the password
generate_password_hash(password, salt) ==
    [method |-> "hash", salt |-> salt, digest |-> <<salt, password>>]

\* werkzeug check_password_hash: rehash the candidate with the stored salt
check_password_hash(pwhash, password) ==
    pwhash.digest = <<pwhash.salt, password>>

(***************************************************************************)
(* The service                                                             *)
(***************************************************************************)
NoRequest == [route |-> "none", username |-> Missing, email |-> Missing,
              password |-> Missing, status |-> 0, body |-> "",
              user_id |-> FormatUserId(0)]

Response(route, username, email, password, status, body, id) ==
    [route |-> route, username |-> username, email |-> email,
     password |-> password, status |-> status, body |-> body, user_id |-> id]

\* init_db: CREATE TABLE IF NOT EXISTS users (...)
init_db == {"users"}

\* the request threads of the server (app.run serves each request in a thread)
Threads == {1, 2}

\* a thread that is handling no signup
Idle == [pc |-> "idle", username |-> Missing, email |-> Missing, password |-> Missing,
         hash |-> generate_password_hash(Missing, Missing), user_id |-> FormatUserId(0)]

\* The statement that creates table User is not in the repository. Two
\* declarations are followed: "plain", columns without constraints (as init_db
\* declares username), and "unique", user_id PRIMARY KEY with username and
\* email UNIQUE. "none" while the table does not exist.
UserSchemas == {"plain", "unique"}

SvcInit ==
    /\ catalog = init_db
    /\ users = <<>>
    /\ User = <<>>
    /\ last = NoRequest
    /\ signups = <<>>
    /\ schema = "none"
    /\ threads = [t \in Threads |-> Idle]

\* INSERT INTO User (user_id, username, email, password, role) VALUES (...):
\* [ok, rows]; under the unique declaration a row that repeats a user_id, a
\* username or an email raises sqlite3.IntegrityError
InsertUser(rows, row, declared) ==
    IF /\ declared = "unique"
       /\ \E i \in 1..Len(rows) : \/ rows[i].user_id = row.user_id
                                  \/ rows[i].username = row.username
                                  \/ rows[i].email = row.email
    THEN [ok |-> FALSE, rows |-> rows]
    ELSE [ok |-> TRUE, rows |-> Append(rows, row)]

\* SELECT * FROM User WHERE username = ? ; c.fetchone()
UsernameExists(rows, username) == \E i \in 1..Len(rows) : rows[i].username = username

\* signup without its "Check if email exists" block
EmailNeverExists(rows, email) == FALSE

\* SELECT * FROM User WHERE email = ? ; c.fetchone()
EmailExists(rows, email) == \E i \in 1..Len(rows) : rows[i].email = email

\* SELECT user_id FROM User ORDER BY user_id DESC LIMIT 1
LastUserId(rows) ==
    CHOOSE id \in {rows[i].user_id : i \in 1..Len(rows)} :
        \A j \in 1..Len(rows) : ~UserIdLess(id, rows[j].user_id)

\* the "Generate new user_id" block of signup
NewUserId(rows) ==
    IF rows # <<>> THEN FormatUserId(ParseUserId(LastUserId(rows)) + 1)
    ELSE FormatUserId(1)

\* POST /signup
Signup(username, email, password, salt, role) ==
    /\ UNCHANGED adminVars
    /\ Len(signups) < MaxSignups
    /\ UNCHANGED <<catalog, users>>
    /\ IF "User" \notin catalog
       THEN \* sqlite3.OperationalError: no such table: User, not caught
            /\ last' = Response("signup", username, email, password, 500,
                                "Internal Server Error", FormatUserId(0))
            /\ UNCHANGED User
       ELSE IF UsernameExists(User, username)
       THEN /\ last' = Response("signup", username, email, password, 409,
                                "Username already exists", FormatUserId(0))
            /\ UNCHANGED User
       ELSE IF EmailExists(User, email)
       THEN /\ last' = Response("signup", username, email, password, 409,
                                "Email already registered", FormatUserId(0))
            /\ UNCHANGED User
       ELSE LET ins == InsertUser(User, [user_id  |-> NewUserId(User),
                                         username |-> username,
                                         email    |-> email,
                                         password |-> generate_password_hash(password, salt),
                                         role     |-> role], schema)
            IN  /\ User' = ins.rows
                /\ last' = IF ins.ok
                           THEN Response("signup", username, email, password, 201,
                                         "User registered successfully", NewUserId(User))
                           ELSE Response("signup", username, email, password, 500,
                                         "Internal Server Error", FormatUserId(0))
    /\ UNCHANGED <<schema, threads>>
    /\ signups' = Append(signups, last')

\* SELECT password FROM User WHERE username = ? ; c.fetchone()
PasswordRow(rows, username) ==
    rows[CHOOSE i \in 1..Len(rows) :
            /\ rows[i].username = username
            /\ \A j \in 1..(i - 1) : rows[j].username # username]

\* the credential test of login: row and check_password_hash(row[0], password)
LoginOk(rows, username, password) ==
    /\ UsernameExists(rows, username)
    /\ check_password_hash(PasswordRow(rows, username).password, password)

\* POST /login
Login(username, password) ==
    /\ UNCHANGED adminVars
    /\ UNCHANGED <<catalog, users, User, signups, schema, threads>>
    /\ IF "User" \notin catalog
       THEN last' = Response("login", username, Missing, password, 500,
                             "Internal Server Error", FormatUserId(0))
       ELSE IF LoginOk(User, username, password)
       THEN last' = Response("login", username, Missing, password, 200,
                             "Login successful", FormatUserId(0))
       ELSE last' = Response("login", username, Missing, password, 401,
                             "Invalid username or password", FormatUserId(0))

\* POST /forgot-password
ForgotPassword(email) ==
    /\ UNCHANGED adminVars
    /\ UNCHANGED <<catalog, users, User, signups, schema, threads>>
    /\ IF "User" \notin catalog
       THEN last' = Response("forgot", Missing, email, Missing, 500,
                             "Internal Server Error", FormatUserId(0))
       ELSE IF EmailExists(User, email)
       THEN last' = Response("forgot", Missing, email, Missing, 200,
                             "Email found", FormatUserId(0))
       ELSE last' = Response("forgot", Missing, email, Missing, 404,
                             "Email not found", FormatUserId(0))

\* UPDATE <table> SET password = ? WHERE email = ?
UpdatePassword(rows, email, pwhash) ==
    [i \in 1..Len(rows) |->
        IF rows[i].email = email THEN [rows[i] EXCEPT !.password = pwhash]
        ELSE rows[i]]

\* POST /reset-password
ResetPassword(email, new_password, salt) ==
    /\ UNCHANGED adminVars
    /\ UNCHANGED <<catalog, User, signups, schema, threads>>
    /\ IF email = Missing \/ new_password = Missing
       THEN /\ last' = Response("reset", Missing, email, new_password, 400,
                                "Email and new password are required", FormatUserId(0))
            /\ UNCHANGED users
       ELSE \* UPDATE users SET password = ? WHERE email = ?
            /\ users' = UpdatePassword(users, email,
                                       generate_password_hash(new_password, salt))
            /\ last' = Response("reset", Missing, email, new_password, 200,
                                "Password has been successfully updated", FormatUserId(0))

\* The table User is never created by the service: it comes into being only
\* when the administrator creates it in the same database file
\* (db_manager.py, Execute Query: "CREATE TABLE User (user_id ..., username
\* ..., email ..., password ..., role ...)").
CreateUserTable(declared) ==
    /\ UNCHANGED adminVars
    /\ "User" \notin catalog
    /\ catalog' = catalog \cup {"User"}
    /\ schema' = declared
    /\ last' = [NoRequest EXCEPT !.route = "admin"]
    /\ UNCHANGED <<users, User, signups, threads>>

NextSvc ==
    \/ \E u \in Usernames, e \in Emails, p \in Passwords, s \in Salts :
           Signup(u, e, p, s, 1)
    \/ \E u \in Usernames, p \in Passwords : Login(u, p)
    \/ \E e \in Emails : ForgotPassword(e)
    \/ \E e \in Emails \cup {Missing}, p \in Passwords \cup {Missing}, s \in Salts :
           ResetPassword(e, p, s)
    \/ \E d \in UserSchemas : CreateUserTable(d)

(***************************************************************************)
(* Signup, statement by statement                                          *)
(***************************************************************************)
\* a thread answers its request and is free again
Answer(t, status, body, id) ==
    /\ last' = Response("signup", threads[t].username, threads[t].email,
                        threads[t].password, status, body, id)
    /\ threads' = [threads EXCEPT ![t] = Idle]
    /\ signups' = Append(signups, last')

\* a thread takes a POST /signup: it reads the request, hashes the password,
\* connects, and runs SELECT * FROM User WHERE username = ?
SignupCheckUsername(t, username, email, password, salt) ==
    /\ UNCHANGED adminVars
    /\ UNCHANGED <<catalog, users, User, schema>>
    /\ threads[t].pc = "idle"
    /\ Len(signups) + Cardinality({x \in Threads : threads[x].pc # "idle"}) < MaxSignups
    /\ LET req == [pc |-> "check_email", username |-> username, email |-> email,
                   password |-> password,
                   hash |-> generate_password_hash(password, salt),
                   user_id |-> FormatUserId(0)]
       IN  IF "User" \notin catalog
           THEN /\ last' = Response("signup", username, email, password, 500,
                                    "Internal Server Error", FormatUserId(0))
                /\ signups' = Append(signups, last')
                /\ UNCHANGED threads
           ELSE IF UsernameExists(User, username)
           THEN /\ last' = Response("signup", username, email, password, 409,
                                    "Username already exists", FormatUserId(0))
                /\ signups' = Append(signups, last')
                /\ UNCHANGED threads
           ELSE /\ threads' = [threads EXCEPT ![t] = req]
                /\ UNCHANGED <<last, signups>>

\* SELECT * FROM User WHERE email = ?
SignupCheckEmail(t) ==
    /\ UNCHANGED adminVars
    /\ UNCHANGED <<catalog, users, User, schema>>
    /\ threads[t].pc = "check_email"
    /\ IF EmailExists(User, threads[t].email)
       THEN Answer(t, 409, "Email already registered", FormatUserId(0))
       ELSE /\ threads' = [threads EXCEPT ![t].pc = "read_last"]
            /\ UNCHANGED <<last, signups>>

\* SELECT user_id FROM User ORDER BY user_id DESC LIMIT 1, and new_user_id
SignupReadLast(t) ==
    /\ UNCHANGED adminVars
    /\ UNCHANGED <<catalog, users, User, schema, last, signups>>
    /\ threads[t].pc = "read_last"
    /\ threads' = [threads EXCEPT ![t].pc = "insert", ![t].user_id = NewUserId(User)]

\* INSERT INTO User ..., conn.commit(), and the 201 response
SignupInsert(t) ==
    LET ins == InsertUser(User, [user_id  |-> threads[t].user_id,
                                 username |-> threads[t].username,
                                 email    |-> threads[t].email,
                                 password |-> threads[t].hash,
                                 role     |-> 1], schema)
    IN
    /\ UNCHANGED adminVars
    /\ UNCHANGED <<catalog, users, schema>>
    /\ threads[t].pc = "insert"
    /\ User' = ins.rows
    /\ IF ins.ok
       THEN Answer(t, 201, "User registered successfully", threads[t].user_id)
       ELSE Answer(t, 500, "Internal Server Error", FormatUserId(0))

NextRace ==
    \/ \E t \in Threads, u \in Usernames, e \in Emails :
           SignupCheckUsername(t, u, e, "pw1", "s1")
    \/ \E t \in Threads : SignupCheckEmail(t)
    \/ \E t \in Threads : SignupReadLast(t)
    \/ \E t \in Threads : SignupInsert(t)
    \/ \E d \in UserSchemas : CreateUserTable(d)

(***************************************************************************)
(* The administration tool: values, tables, the store                      *)
(***************************************************************************)
\* bounds
MaxRows == 2        \* rows per table, and the largest generated key

\* a stored value: NULL, an integer or a text
Null == [k |-> "null", n |-> 0, s |-> ""]
IntV(n) == [k |-> "int", n |-> n, s |-> ""]
TextV(s) == [k |-> "text", n |-> 0, s |-> s]

\* the numerals the inputs use, with int() and str() on them
Numerals == {"1", "2", "3", "9"}
IntOfStr(s) == CASE s = "1" -> 1 [] s = "2" -> 2 [] s = "3" -> 3 [] s = "9" -> 9
StrOfInt(n) == CASE n = 1 -> "1" [] n = 2 -> "2" [] n = 3 -> "3" [] n = 9 -> "9"

\* names that can be written bare in a statement; a name such as "b:1" cannot
Identifiers == {"id", "a", "b", "c"}

\* the column affinity SQLite derives from a declared type
Affinity(type) ==
    CASE type \in {"INTEGER", "INT"} -> "INTEGER"
      [] type = "TEXT" -> "TEXT"
      [] type = "REAL" -> "REAL"
      [] type \in {"BLOB", ""} -> "BLOB"
      [] OTHER -> "NUMERIC"

\* the declared type CREATE TABLE ... AS SELECT gives a copied column
CopiedType(type) ==
    CASE Affinity(type) = "INTEGER" -> "INT"
      [] Affinity(type) = "TEXT" -> "TEXT"
      [] Affinity(type) = "REAL" -> "REAL"
      [] Affinity(type) = "NUMERIC" -> "NUM"
      [] OTHER -> ""

\* the value a column of the given declared type stores for a bound value
StoreValue(type, v) ==
    IF Affinity(type) \in {"INTEGER", "NUMERIC"} /\ v.k = "text" /\ v.s \in Numerals
    THEN IntV(IntOfStr(v.s))
    ELSE IF Affinity(type) = "TEXT" /\ v.k = "int"
    THEN TextV(StrOfInt(v.n))
    ELSE v

\* PRAGMA table_info row: name col[1], declared type col[2], pk flag col[5]
Column(name, type, pk) == [name |-> name, type |-> type, pk |-> pk]

\* a table; a table that does not exist has no columns (PRAGMA table_info
\* returns no row for it)
Absent == [cols |-> <<>>, rows |-> <<>>]
TableNames == {"t", "t_new"}
EmptyStore == [n \in TableNames |-> Absent]

Lookup(store, name) == IF name \in DOMAIN store THEN store[name] ELSE Absent
TableExists(store, name) == Lookup(store, name).cols # <<>>

\* PRAGMA table_info(table_name)
table_info(store, table_name) == Lookup(store, table_name).cols

ColumnNames(cols) == [i \in 1..Len(cols) |-> cols[i].name]

\* is name one of the table's columns
HasColumn(tbl, name) == \E j \in 1..Len(tbl.cols) : tbl.cols[j].name = name

\* the primary-key scan of update_record and delete_record: the name of the
\* first column whose pk flag is set, None ("") when there is none
PrimaryKeyOf(cols) ==
    IF \E i \in 1..Len(cols) : cols[i].pk
    THEN cols[CHOOSE i \in 1..Len(cols) :
                  cols[i].pk /\ \A j \in 1..(i - 1) : ~cols[j].pk].name
    ELSE ""

IndexOfName(names, name) ==
    CHOOSE i \in 1..Len(names) :
        names[i] = name /\ \A j \in 1..(i - 1) : names[j] # name

\* position of the named column
KeyIndex(cols, primary_key) == IndexOfName(ColumnNames(cols), primary_key)

\* a key generator that counts the rows and starts above 1
RowCountKey(rows, k) == Len(rows) + 1

\* the largest key of a table whose INTEGER PRIMARY KEY is column k
MaxKey(rows, k) ==
    IF rows = <<>> THEN 0
    ELSE LET ks == {rows[i][k].n : i \in 1..Len(rows)}
         IN  CHOOSE m \in ks : \A x \in ks : x <= m

\* rows of an INTEGER PRIMARY KEY table are held, and read, in key order
InsertByKey(rows, row, k) ==
    LET below == SelectSeq(rows, LAMBDA r : r[k].n < row[k].n)
        above == SelectSeq(rows, LAMBDA r : r[k].n > row[k].n)
    IN  below \o <<row>> \o above

(***************************************************************************)
(* The connection: sqlite3's implicit transactions                         *)
(***************************************************************************)
Conn == [db |-> db, disk |-> disk, tx |-> in_transaction]

SetConn(c) ==
    /\ db' = c.db
    /\ disk' = c.disk
    /\ in_transaction' = c.tx

\* cursor.execute of INSERT/UPDATE/DELETE: sqlite3 opens a transaction first
ExecDML(c, newdb) == [db |-> newdb, disk |-> c.disk, tx |-> TRUE]

\* cursor.execute of CREATE/DROP/ALTER: no transaction is opened, so outside
\* a transaction the statement is committed on its own
ExecDDL(c, newdb) == [db |-> newdb, disk |-> IF c.tx THEN c.disk ELSE newdb, tx |-> c.tx]

\* self.conn.commit()
Commit(c) == [db |-> c.db, disk |-> c.db, tx |-> FALSE]

\* self.conn.rollback()
Rollback(c) == [db |-> c.disk, disk |-> c.disk, tx |-> FALSE]

(***************************************************************************)
(* The administration tool: operations                                     *)
(***************************************************************************)
NoOp == [op |-> "none", table |-> "", key |-> "", args |-> <<>>, msg |-> ""]

Out(op, table, key, args, msg) ==
    [op |-> op, table |-> table, key |-> key, args |-> args, msg |-> msg]

AdminInit ==
    /\ db = EmptyStore
    /\ disk = EmptyStore
    /\ in_transaction = FALSE
    /\ screen = "main"
    /\ out = NoOp
    /\ faulted = FALSE

\* inputs
TableInputs == {"t", "ghost"}
CreateNameInputs == {"t", "no good", "_"}
InsertInputs == {"", "1"}
\* entries with a text that is no number: it is typed at the first prompt
\* "Enter <col_name> (INTEGER): ", after empty entries; int() raises there and
\* the later prompts do not appear ("" for them)
BadNumberInputs(cols) ==
    LET ints == {j \in 1..Len(cols) : cols[j].type = "INTEGER"}
    IN  IF ints = {} THEN {}
        ELSE {[i \in 1..Len(cols) |->
                  IF i = (CHOOSE j \in ints : \A x \in ints : j <= x) THEN "x" ELSE ""]}
UpdateInputs == {"", "2"}
KeyInputs == {"1", "9"}
ColumnLists == {<<>>, <<<<"a", "TEXT">>>>, <<<<"a", "TEXT">>, <<"b", "INTEGER">>>>}

\* main(): choice 1
ManageCurrentTables ==
    /\ screen = "main"
    /\ ~faulted
    /\ screen' = "manage"
    /\ out' = Out("menu", "", "", <<>>, "Current Tables Management")
    /\ UNCHANGED <<db, disk, in_transaction>>
    /\ UNCHANGED <<svcVars, faulted>>

\* manage_current_tables(): choice 11
ReturnToMainMenu ==
    /\ screen = "manage"
    /\ ~faulted
    /\ screen' = "main"
    /\ out' = Out("menu", "", "", <<>>, "NextGenFitness Database Manager")
    /\ UNCHANGED <<db, disk, in_transaction>>
    /\ UNCHANGED <<svcVars, faulted>>

\* main(): choice 4: db.close() discards what was not committed
Exit ==
    /\ screen = "main"
    /\ ~faulted
    /\ screen' = "exit"
    /\ SetConn(Rollback(Conn))
    /\ out' = Out("exit", "", "", <<>>, "Goodbye!")
    /\ UNCHANGED <<svcVars, faulted>>

\* view_table_data: SELECT * FROM table_name
view_table_data(store, table_name) ==
    IF ~TableExists(store, table_name) THEN "Error viewing table data"
    ELSE IF Lookup(store, table_name).rows # <<>> THEN "Data in table"
    ELSE "No data found in table"

\* rows = self.cursor.fetchall() after SELECT * FROM table_name
fetchall(store, table_name) == Lookup(store, table_name).rows

\* manage_current_tables(): choice 2; out.args holds the rows tabulated
ViewTableData(table_name) ==
    /\ screen = "manage"
    /\ ~faulted
    /\ out' = Out("view_table_data", table_name, "", fetchall(db, table_name),
                  view_table_data(db, table_name))
    /\ UNCHANGED <<db, disk, in_transaction, screen>>
    /\ UNCHANGED <<svcVars, faulted>>

\* the characters of the names entered, each by its class
NameChars(name) ==
    CASE name \in {"t", "a", "b", "c"} -> <<"lower">>
      [] name = "id" -> <<"lower", "lower">>
      [] name = "t_new" -> <<"lower", "underscore", "lower", "lower", "lower">>
      [] name = "no good" -> <<"lower", "lower", "space", "lower", "lower", "lower", "lower">>
      [] name = "_" -> <<"underscore">>
      [] OTHER -> <<>>

\* str.isalnum(): not empty, and every character a letter or a digit
isalnum(chars) ==
    /\ chars # <<>>
    /\ \A i \in 1..Len(chars) : chars[i] \in {"lower", "upper", "digit"}

\* table_name.replace('_', '').isalnum()
ValidName(name) == isalnum(SelectSeq(NameChars(name), LAMBDA ch : ch # "underscore"))

\* the column list CREATE TABLE declares: the key first, then the entered ones
DeclaredColumns(pk_name, columns) ==
    <<Column(pk_name, "INTEGER", TRUE)>> \o
    [i \in 1..Len(columns) |-> Column(columns[i][1], columns[i][2], FALSE)]

NoDuplicateNames(cols) ==
    \A i, j \in 1..Len(cols) : i # j => cols[i].name # cols[j].name

\* create_new_table
CreateNewTable(table_name, pk_name, columns, confirm) ==
    /\ screen = "main"
    /\ ~faulted
    /\ UNCHANGED screen
    /\ UNCHANGED <<svcVars, faulted>>
    /\ IF table_name = "" \/ ~ValidName(table_name)
       THEN \* refused before any column is asked for
            /\ out' = Out("create_new_table", table_name, "", <<>>,
                          "Error: Table name must contain only letters, numbers, and underscores")
            /\ UNCHANGED <<db, disk, in_transaction>>
       ELSE IF Len(columns) + 1 < 2
       THEN /\ out' = Out("create_new_table", table_name, "", columns,
                          "Error: Table must have at least one column besides the primary key")
            /\ UNCHANGED <<db, disk, in_transaction>>
       ELSE IF confirm # "y"
       THEN /\ out' = Out("create_new_table", table_name, "", columns,
                          "Table creation cancelled.")
            /\ UNCHANGED <<db, disk, in_transaction>>
       ELSE IF TableExists(db, table_name)
               \/ ~NoDuplicateNames(DeclaredColumns(pk_name, columns))
       THEN \* sqlite3.OperationalError: table exists / duplicate column name
            /\ out' = Out("create_new_table", table_name, "", columns,
                          "Error creating table")
            /\ UNCHANGED <<db, disk, in_transaction>>
       ELSE /\ SetConn(Commit(ExecDDL(Conn,
                   [db EXCEPT ![table_name] =
                       [cols |-> DeclaredColumns(pk_name, columns), rows |-> <<>>]])))
            /\ out' = Out("create_new_table", table_name, "", columns,
                          "Table created successfully!")

\* the conversion loop of insert_record: int(value) if value else None for an
\* INTEGER column, the text as entered for the others
ConvertInput(col_type, value) ==
    IF col_type = "INTEGER"
    THEN IF value = "" THEN Null ELSE IntV(IntOfStr(value))
    ELSE TextV(value)

\* int(value) raises ValueError
ConvertRaises(col_type, value) ==
    col_type = "INTEGER" /\ value # "" /\ value \notin Numerals

\* INSERT INTO table (columns) VALUES (values) on a table that exists and whose
\* column names are identifiers: [ok, rows]
InsertRow(tbl, values) ==
    LET cols == tbl.cols
        pk == PrimaryKeyOf(cols)
        stored == [i \in 1..Len(cols) |-> StoreValue(cols[i].type, values[i])]
    IN  IF pk = ""
        THEN [ok |-> TRUE, rows |-> Append(tbl.rows, stored)]
        ELSE LET k == KeyIndex(cols, pk)
                 key == IF stored[k].k = "null" THEN MaxKey(tbl.rows, k) + 1
                        ELSE stored[k].n
                 row == [stored EXCEPT ![k] = IntV(key)]
             IN  IF \E i \in 1..Len(tbl.rows) : tbl.rows[i][k].n = key
                 THEN [ok |-> FALSE, rows |-> tbl.rows]   \* UNIQUE constraint failed
                 ELSE [ok |-> TRUE, rows |-> InsertByKey(tbl.rows, row, k)]

\* insert_record
InsertRecord(table_name, inputs) ==
    LET cols == table_info(db, table_name)
        values == [i \in 1..Len(cols) |-> ConvertInput(cols[i].type, inputs[i])]
        res == InsertRow(db[table_name], values)
    IN
    /\ screen = "manage"
    /\ ~faulted
    /\ UNCHANGED <<svcVars, faulted>>
    /\ IF \E i \in 1..Len(cols) : ConvertRaises(cols[i].type, inputs[i])
       THEN \* ValueError is not an sqlite3.Error: it leaves insert_record and main
            /\ screen' = "crashed"
            /\ out' = Out("insert_record", table_name, "", inputs, "ValueError")
            /\ UNCHANGED <<db, disk, in_transaction>>
       ELSE IF cols = <<>> \/ \E i \in 1..Len(cols) : cols[i].name \notin Identifiers
       THEN \* the statement does not parse: sqlite3.OperationalError
            /\ out' = Out("insert_record", table_name, "", inputs, "Error inserting record")
            /\ UNCHANGED <<db, disk, in_transaction, screen>>
       ELSE IF ~res.ok
       THEN /\ SetConn(ExecDML(Conn, db))
            /\ out' = Out("insert_record", table_name, "", inputs, "Error inserting record")
            /\ UNCHANGED screen
       ELSE /\ Len(res.rows) <= MaxRows
            /\ PrimaryKeyOf(cols) # "" =>
                   MaxKey(res.rows, KeyIndex(cols, PrimaryKeyOf(cols))) <= MaxRows
            /\ SetConn(Commit(ExecDML(Conn, [db EXCEPT ![table_name].rows = res.rows])))
            /\ out' = Out("insert_record", table_name, "", inputs, "Record inserted successfully")
            /\ UNCHANGED screen

\* WHERE primary_key = ? with the text entered: the INTEGER key column
\* compares the text as a number when it reads as one
KeyMatches(stored, entered) ==
    stored.k = "int" /\ entered \in Numerals /\ stored.n = IntOfStr(entered)

\* the UPDATE without its WHERE clause: every row takes the new values
UpdateRowsNoWhere(tbl, primary_key, primary_key_value, new_values) ==
    LET k == IndexOfName(ColumnNames(tbl.cols), primary_key)
    IN  [i \in 1..Len(tbl.rows) |->
            [j \in 1..Len(tbl.cols) |->
                IF j # k /\ new_values[j] # ""
                THEN StoreValue(tbl.cols[j].type, TextV(new_values[j]))
                ELSE tbl.rows[i][j]]]

\* UPDATE table SET c = ? ... WHERE primary_key = ?, for the columns with an
\* entry in new_values (entered text, "" where nothing was entered)
UpdateRows(tbl, primary_key, primary_key_value, new_values) ==
    LET k == KeyIndex(tbl.cols, primary_key)
    IN  [i \in 1..Len(tbl.rows) |->
            IF KeyMatches(tbl.rows[i][k], primary_key_value)
            THEN [j \in 1..Len(tbl.cols) |->
                     IF j # k /\ new_values[j] # ""
                     THEN StoreValue(tbl.cols[j].type, TextV(new_values[j]))
                     ELSE tbl.rows[i][j]]
            ELSE tbl.rows[i]]

\* update_record; new_values[j] is what was entered for column j ("" for
\* Enter, and for the key column, which is not asked)
UpdateRecord(table_name, primary_key_value, new_values) ==
    LET cols == table_info(db, table_name)
        primary_key == PrimaryKeyOf(cols)
        updates == {j \in 1..Len(cols) : cols[j].name # primary_key /\ new_values[j] # ""}
    IN
    /\ screen = "manage"
    /\ ~faulted
    /\ UNCHANGED <<svcVars, faulted, screen>>
    /\ IF primary_key = ""
       THEN /\ out' = Out("update_record", table_name, "", <<>>,
                          "Error: No primary key found in table")
            /\ UNCHANGED <<db, disk, in_transaction>>
       ELSE /\ new_values[KeyIndex(cols, primary_key)] = ""
            /\ IF updates = {}
               THEN /\ out' = Out("update_record", table_name, primary_key_value,
                                  new_values, "No changes made")
                    /\ UNCHANGED <<db, disk, in_transaction>>
               ELSE IF \E j \in updates : cols[j].name \notin Identifiers
               THEN /\ out' = Out("update_record", table_name, primary_key_value,
                                  new_values, "Error updating record")
                    /\ UNCHANGED <<db, disk, in_transaction>>
               ELSE /\ SetConn(Commit(ExecDML(Conn,
                           [db EXCEPT ![table_name].rows =
                               UpdateRows(db[table_name], primary_key,
                                          primary_key_value, new_values)])))
                    /\ out' = Out("update_record", table_name, primary_key_value,
                                  new_values, "Record updated successfully")

\* DELETE FROM table WHERE primary_key = ?
DeleteRows(tbl, primary_key, record_id) ==
    LET k == KeyIndex(tbl.cols, primary_key)
    IN  SelectSeq(tbl.rows, LAMBDA r : ~KeyMatches(r[k], record_id))

\* delete_record without its confirmation test
DeleteUnconfirmed(confirm) == TRUE

\* the confirmation test of delete_record: confirm.lower() == 'y'
DeleteConfirmed(confirm) == confirm \in {"y", "Y"}

\* delete_record
DeleteRecord(table_name, record_id, confirm) ==
    LET cols == table_info(db, table_name)
        primary_key == PrimaryKeyOf(cols)
    IN
    /\ screen = "manage"
    /\ ~faulted
    /\ UNCHANGED <<svcVars, faulted, screen>>
    /\ IF primary_key = ""
       THEN /\ out' = Out("delete_record", table_name, "", <<>>,
                          "Error: No primary key found in table")
            /\ UNCHANGED <<db, disk, in_transaction>>
       ELSE IF DeleteConfirmed(confirm)
       THEN /\ SetConn(Commit(ExecDML(Conn,
                   [db EXCEPT ![table_name].rows =
                       DeleteRows(db[table_name], primary_key, record_id)])))
            /\ out' = Out("delete_record", table_name, record_id, <<confirm>>,
                          "Record deleted successfully")
       ELSE /\ out' = Out("delete_record", table_name, record_id, <<confirm>>,
                          "Deletion cancelled")
            /\ UNCHANGED <<db, disk, in_transaction>>

\* SELECT name FROM sqlite_master WHERE type='table'
TableList(store) == SelectSeq(<<"t", "t_new">>, LAMBDA n : TableExists(store, n))

\* the confirmation test of delete_table: confirm == 'yes' after lower()
DropConfirmed(confirm) == confirm \in {"yes", "YES"}

\* delete_table; choice is a number of the list, or "cancel"
DeleteTable(choice, confirm) ==
    LET tables == TableList(db)
    IN
    /\ screen = "manage"
    /\ ~faulted
    /\ UNCHANGED <<svcVars, faulted, screen>>
    /\ IF tables = <<>>
       THEN /\ out' = Out("delete_table", "", "", <<>>, "No tables found in the database")
            /\ UNCHANGED <<db, disk, in_transaction>>
       ELSE IF choice = "cancel"
       THEN /\ out' = Out("delete_table", "", "", <<>>, "Table deletion cancelled.")
            /\ UNCHANGED <<db, disk, in_transaction>>
       ELSE /\ choice \in Numerals
            /\ IntOfStr(choice) \in 1..Len(tables)
            /\ LET table_name == tables[IntOfStr(choice)]
               IN  IF DropConfirmed(confirm)
                   THEN /\ SetConn(Commit(ExecDDL(Conn, [db EXCEPT ![table_name] = Absent])))
                        /\ out' = Out("delete_table", table_name, "", <<confirm>>,
                                      "Table has been successfully deleted.")
                   ELSE /\ out' = Out("delete_table", table_name, "", <<confirm>>,
                                      "Table deletion cancelled.")
                        /\ UNCHANGED <<db, disk, in_transaction>>

\* data_types of modify_table's "Add new column"
AddColumnTypes == {"1", "2", "3", "4", "5"}
AddColumnType(type_choice) ==
    CASE type_choice = "1" -> "TEXT"
      [] type_choice = "2" -> "INTEGER"
      [] type_choice = "3" -> "REAL"
      [] type_choice = "4" -> "BOOLEAN"
      [] type_choice = "5" -> "TIMESTAMP"

\* an ADD COLUMN that fills the new column from the table's first column
AlterAddColumnFilled(tbl, col_name, data_type) ==
    [cols |-> Append(tbl.cols, Column(col_name, data_type, FALSE)),
     rows |-> [i \in 1..Len(tbl.rows) |-> Append(tbl.rows[i], tbl.rows[i][1])]]

\* the table ALTER TABLE ... ADD COLUMN col_name data_type leaves: the column
\* comes last and is NULL in every row
AlterAddColumn(tbl, col_name, data_type) ==
    [cols |-> Append(tbl.cols, Column(col_name, data_type, FALSE)),
     rows |-> [i \in 1..Len(tbl.rows) |-> Append(tbl.rows[i], Null)]]

\* modify_table, choice 1: ALTER TABLE table ADD COLUMN col_name data_type
AddColumn(table_name, col_name, type_choice) ==
    LET cols == table_info(db, table_name)
    IN
    /\ screen = "manage"
    /\ ~faulted
    /\ UNCHANGED <<svcVars, faulted, screen>>
    /\ IF type_choice \notin AddColumnTypes
       THEN /\ out' = Out("add_column", table_name, col_name, <<type_choice>>,
                          "Invalid data type choice")
            /\ UNCHANGED <<db, disk, in_transaction>>
       ELSE IF cols = <<>> \/ HasColumn(Lookup(db, table_name), col_name)
       THEN \* no such table / duplicate column name
            /\ out' = Out("add_column", table_name, col_name, <<type_choice>>,
                          "Error modifying table")
            /\ UNCHANGED <<db, disk, in_transaction>>
       ELSE /\ SetConn(Commit(ExecDDL(Conn,
                   [db EXCEPT ![table_name] =
                       AlterAddColumn(db[table_name], col_name,
                                      AddColumnType(type_choice))])))
            /\ out' = Out("add_column", table_name, col_name, <<type_choice>>,
                          "Column added successfully")

\* the name of the shadow table: f"{table_name}_new"
ShadowName(table_name) ==
    CASE table_name = "t" -> "t_new"
      [] table_name = "ghost" -> "ghost_new"
      [] OTHER -> "other_new"

\* the name CREATE TABLE ... AS SELECT gives the i-th selected column: a name
\* selected before gets the suffix :1
CopiedName(select, i) ==
    IF \E j \in 1..(i - 1) : select[j] = select[i]
    THEN CASE select[i] = "id" -> "id:1"
           [] select[i] = "a" -> "a:1"
           [] select[i] = "b" -> "b:1"
           [] OTHER -> "c:1"
    ELSE select[i]

\* does CREATE TABLE shadow AS SELECT select FROM table_name execute
CreateAsSelectOk(store, table_name, select) ==
    /\ select # <<>>
    /\ \A i \in 1..Len(select) : select[i] \in Identifiers
    /\ TableExists(store, table_name)
    /\ ~TableExists(store, ShadowName(table_name))
    /\ \A i \in 1..Len(select) : HasColumn(Lookup(store, table_name), select[i])

\* a copy that takes the selected columns over with their declarations
CreateAsSelectDeclared(tbl, select) ==
    LET names == ColumnNames(tbl.cols)
        src == [i \in 1..Len(select) |-> IndexOfName(names, select[i])]
    IN  [cols |-> [i \in 1..Len(select) |-> tbl.cols[src[i]]],
         rows |-> [r \in 1..Len(tbl.rows) |->
                      [i \in 1..Len(select) |-> tbl.rows[r][src[i]]]]]

\* the table CREATE TABLE ... AS SELECT select FROM tbl creates: the selected
\* columns by name, with their affinity as type and no key, and all the rows
CreateAsSelect(tbl, select) ==
    LET names == ColumnNames(tbl.cols)
        src == [i \in 1..Len(select) |-> IndexOfName(names, select[i])]
    IN  [cols |-> [i \in 1..Len(select) |->
                      Column(CopiedName(select, i), CopiedType(tbl.cols[src[i]].type), FALSE)],
         rows |-> [r \in 1..Len(tbl.rows) |->
                      [i \in 1..Len(select) |-> tbl.rows[r][src[i]]]]]

\* the three statements modify_table runs to rebuild table_name from the
\* select list. Besides the errors the statements raise by themselves, the
\* engine may raise sqlite3.OperationalError at any of them (database is
\* locked, disk I/O error): fault is the statement at which it does (0: at
\* none). The except branch of modify_table prints and returns. [conn, ok]
Rebuild(c, table_name, select, fault) ==
    LET shadow == ShadowName(table_name)
    IN  IF fault = 1 \/ ~CreateAsSelectOk(c.db, table_name, select)
        THEN [conn |-> c, ok |-> FALSE]
        ELSE LET c1 == ExecDDL(c, [c.db EXCEPT
                                      ![shadow] = CreateAsSelect(c.db[table_name], select)])
             IN  IF fault = 2
                 THEN [conn |-> c1, ok |-> FALSE]
                 ELSE LET c2 == ExecDDL(c1, [c1.db EXCEPT ![table_name] = Absent])
                      IN  IF fault = 3
                          THEN [conn |-> c2, ok |-> FALSE]
                          ELSE LET c3 == ExecDDL(c2, [c2.db EXCEPT
                                                        ![table_name] = c2.db[shadow],
                                                        ![shadow] = Absent])
                               IN  [conn |-> Commit(c3), ok |-> TRUE]

\* new_columns of "Rename column"
RenameSelect(columns, old_name, new_name) ==
    [i \in 1..Len(columns) |-> IF columns[i] = old_name THEN new_name ELSE columns[i]]

\* columns of "Drop column"
DropSelect(columns, col_name) == SelectSeq(columns, LAMBDA c : c # col_name)

\* modify_table, choice 2
RenameColumn(table_name, old_name, new_name, fault) ==
    LET columns == ColumnNames(table_info(db, table_name))
        res == Rebuild(Conn, table_name, RenameSelect(columns, old_name, new_name), fault)
    IN
    /\ screen = "manage"
    /\ ~faulted
    /\ UNCHANGED <<svcVars, screen>>
    /\ faulted' = (fault # 0)
    /\ SetConn(res.conn)
    /\ out' = Out("rename_column", table_name, old_name, <<new_name>>,
                  IF res.ok THEN "Column renamed successfully" ELSE "Error modifying table")

\* modify_table, choice 3
DropColumn(table_name, col_name, fault) ==
    LET columns == ColumnNames(table_info(db, table_name))
        res == Rebuild(Conn, table_name, DropSelect(columns, col_name), fault)
    IN
    /\ screen = "manage"
    /\ ~faulted
    /\ UNCHANGED <<svcVars, screen>>
    /\ faulted' = (fault # 0)
    /\ SetConn(res.conn)
    /\ out' = Out("drop_column", table_name, col_name, <<>>,
                  IF res.ok THEN "Column dropped successfully" ELSE "Error modifying table")

\* analyze_table's "Column Analysis" loop at column j: the per-column counts
\* do not parse for a name that is not an identifier (sqlite3.Error, caught);
\* for an INTEGER or REAL column without a non-NULL value AVG is None and
\* f"{avg_val:.2f}" raises TypeError, which analyze_table does not catch
AnalyzeColumn(tbl, j) ==
    IF tbl.cols[j].name \notin Identifiers THEN "error"
    ELSE IF /\ tbl.cols[j].type \in {"INTEGER", "REAL"}
            /\ \A i \in 1..Len(tbl.rows) : tbl.rows[i][j].k = "null"
    THEN "raise"
    ELSE "ok"

\* analyze_table: how the call ends: "ok", "error" (printed) or "raise"
analyze_table(store, table_name) ==
    LET tbl == Lookup(store, table_name)
        stops == {j \in 1..Len(tbl.cols) : AnalyzeColumn(tbl, j) # "ok"}
    IN  IF ~TableExists(store, table_name) THEN "error"   \* SELECT COUNT(*): no such table
        ELSE IF stops = {} THEN "ok"
        ELSE AnalyzeColumn(tbl, CHOOSE j \in stops : \A x \in stops : j <= x)

\* manage_current_tables(): choice 8
AnalyzeTable(table_name) ==
    LET end == analyze_table(db, table_name)
    IN
    /\ screen = "manage"
    /\ ~faulted
    /\ UNCHANGED <<svcVars, faulted>>
    /\ UNCHANGED <<db, disk, in_transaction>>
    /\ IF end = "raise"
       THEN \* TypeError leaves analyze_table, manage_current_tables and main
            /\ screen' = "crashed"
            /\ out' = Out("analyze_table", table_name, "", <<>>, "TypeError")
       ELSE /\ UNCHANGED screen
            /\ out' = Out("analyze_table", table_name, "", <<>>,
                          IF end = "ok" THEN "Column Analysis" ELSE "Error analyzing table")

\* the queries entered at execute_query's prompt, and the table each names
QueryInputs == {"exit", "SELECT * FROM t;", "DELETE FROM t;", "DROP TABLE ghost;"}
QueryTable(query) == IF query = "DROP TABLE ghost;" THEN "ghost" ELSE "t"

\* execute_query: manage_current_tables(): choice 10
ExecuteQuery(query) ==
    /\ screen = "manage"
    /\ ~faulted
    /\ UNCHANGED <<svcVars, faulted, screen>>
    /\ IF query = "exit"
       THEN \* if line.lower() == 'exit': return
            /\ out' = Out("execute_query", "", "", <<query>>, "")
            /\ UNCHANGED <<db, disk, in_transaction>>
       ELSE IF ~TableExists(db, QueryTable(query))
       THEN \* no such table: the except branch prints and rolls back
            /\ SetConn(Rollback(Conn))
            /\ out' = Out("execute_query", QueryTable(query), "", <<query>>,
                          "Error executing query")
       ELSE IF query = "SELECT * FROM t;"
       THEN \* a SELECT opens no transaction and is not committed
            /\ out' = Out("execute_query", "t", "", <<query>>,
                          IF fetchall(db, "t") # <<>> THEN "Query Results"
                          ELSE "No results found")
            /\ UNCHANGED <<db, disk, in_transaction>>
       ELSE \* DELETE FROM t; then self.conn.commit()
            /\ SetConn(Commit(ExecDML(Conn, [db EXCEPT !["t"].rows = <<>>])))
            /\ out' = Out("execute_query", "t", "", <<query>>,
                          "Query executed successfully")

\* more inputs: the table named for Update record and Delete record, and for
\* Modify table
RecordInputs == {"t"}
ModifyInputs == {"t"}
AddNameInputs == {"b"}
AddTypeInputs == {"2", "7"}
OldNameInputs == {"a"}
NewNameInputs == {"b", "c"}
DropNameInputs == {"a", "b"}
Faults == {0, 1, 2, 3}
\* answers to "Are you sure you want to delete record ...? (y/n)" and to
\* "Are you sure you want to delete the table ...? (yes/no)": the confirming
\* answer as it is and in capitals, and the other question's confirming answer
DeleteAnswers == {"y", "Y", "yes"}
DropAnswers == {"yes", "YES", "y"}

NextAdmin ==
    \/ ManageCurrentTables
    \/ ReturnToMainMenu
    \/ Exit
    \/ \E tn \in TableInputs : ViewTableData(tn)
    \/ \E tn \in CreateNameInputs, cl \in ColumnLists, cf \in {"y", "n"} :
           CreateNewTable(tn, "id", cl, cf)
    \/ \E tn \in TableInputs :
           \E inputs \in [1..Len(table_info(db, tn)) -> InsertInputs]
                           \cup BadNumberInputs(table_info(db, tn)) :
               InsertRecord(tn, inputs)
    \/ \E tn \in TableInputs : AnalyzeTable(tn)
    \/ \E q \in QueryInputs : ExecuteQuery(q)
    \/ \E tn \in RecordInputs, key \in KeyInputs :
           \E nv \in [1..Len(table_info(db, tn)) -> UpdateInputs] :
               UpdateRecord(tn, key, nv)
    \/ \E tn \in RecordInputs, key \in KeyInputs, cf \in DeleteAnswers :
           DeleteRecord(tn, key, cf)
    \/ \E ch \in {"1", "2", "cancel"}, cf \in DropAnswers : DeleteTable(ch, cf)
    \/ \E tn \in ModifyInputs, cn \in AddNameInputs, ty \in AddTypeInputs :
           AddColumn(tn, cn, ty)
    \/ \E tn \in ModifyInputs, old \in OldNameInputs, new \in NewNameInputs, f \in Faults :
           RenameColumn(tn, old, new, f)
    \/ \E tn \in ModifyInputs, cn \in DropNameInputs, f \in Faults :
           DropColumn(tn, cn, f)

(***************************************************************************)
(* Specifications                                                          *)
(***************************************************************************)
InitSvc == SvcInit /\ AdminInit
SpecSvc == InitSvc /\ [][NextSvc]_vars

InitRace == SvcInit /\ AdminInit
SpecRace == InitRace /\ [][NextRace]_vars

InitAdmin == AdminInit /\ SvcInit
SpecAdmin == InitAdmin /\ [][NextAdmin]_vars

(***************************************************************************)
(* Claims about the service                                                *)
(***************************************************************************)
\* C1: signup requests with pairwise distinct usernames and emails, issued
\* against the store as init_db leaves it, all succeed with 201 and receive
\* strictly increasing, pairwise distinct identifiers U001, U002, ...
C1_SignupIssuesIncreasingIds ==
    (\A i, j \in 1..Len(signups) :
        i # j => /\ signups[i].username # signups[j].username
                 /\ signups[i].email # signups[j].email) =>
        /\ \A i \in 1..Len(signups) : signups[i].status = 201
        /\ \A i, j \in 1..Len(signups) :
               i < j => /\ ParseUserId(signups[i].user_id) < ParseUserId(signups[j].user_id)
                        /\ signups[i].user_id # signups[j].user_id

\* C2: a signup whose username or email already belongs to a row of User is
\* answered 409 with the duplicate error, and the rows of User (hence the
\* next identifier to be issued) are unchanged.
C2_DuplicateSignupRejected ==
    [][ ( /\ signups' # signups
          /\ \E i \in 1..Len(User) :
                \/ User[i].username = last'.username
                \/ User[i].email = last'.email )
        => ( /\ last'.status = 409
             /\ last'.body \in {"Username already exists", "Email already registered"}
             /\ User' = User
             /\ users' = users ) ]_vars

C2_Witness ==
    /\ last.route = "signup"
    /\ last.status = 409
    /\ last.body = "Email already registered"
    /\ Len(User) >= 1

\* C3: login answers 200 exactly when the username is stored and the password
\* matches its hash; every other login is answered with one and the same 401
\* "Invalid username or password".
C3_LoginUniform ==
    last.route = "login" =>
        LET ok == \E i \in 1..Len(User) :
                      /\ User[i].username = last.username
                      /\ check_password_hash(User[i].password, last.password)
        IN  /\ (last.status = 200) <=> ok
            /\ ~ok => /\ last.status = 401
                       /\ last.body = "Invalid username or password"

\* C4: a reset-password request carrying email and new_password leaves the
\* user that signed up with that email with a hash of the new password (login
\* with it succeeds), and a request missing a field is answered 400.
C4_ResetReplacesHash ==
    last.route = "reset" =>
        IF last.email = Missing \/ last.password = Missing
        THEN last.status = 400
        ELSE /\ last.status = 200
             /\ \A i \in 1..Len(User) :
                    User[i].email = last.email =>
                        check_password_hash(User[i].password, last.password)
(***************************************************************************)
(* Claims about the administration tool                                    *)
(***************************************************************************)
\* C5: a rename or drop of a column that fails at any of its three statements
\* leaves the store as it was before the operation, with no <table>_new.
C5_RebuildAllOrNothing ==
    [][ ( /\ out'.op \in {"rename_column", "drop_column"}
          /\ out'.msg = "Error modifying table" )
        => ( /\ db' = db
             /\ disk' = disk
             /\ ~TableExists(db', ShadowName(out'.table)) ) ]_vars

\* C6: renaming an existing column to a name the table does not have yet
\* succeeds, keeps every row and its values, and shows the old column's values
\* under the new name.
C6_RenameKeepsData ==
    [][ ( /\ out'.op = "rename_column"
          /\ ~faulted'
          /\ HasColumn(Lookup(db, out'.table), out'.key)
          /\ ~HasColumn(Lookup(db, out'.table), out'.args[1]) )
        => ( /\ out'.msg = "Column renamed successfully"
             /\ ColumnNames(db'[out'.table].cols) =
                    RenameSelect(ColumnNames(db[out'.table].cols), out'.key, out'.args[1])
             /\ db'[out'.table].rows = db[out'.table].rows ) ]_vars

\* C7: dropping a name that is not a column of the (existing) table is refused:
\* the table is unchanged and no success is reported.
C7_DropUnknownColumnRefused ==
    [][ ( /\ out'.op = "drop_column"
          /\ ~faulted'
          /\ TableExists(db, out'.table)
          /\ ~HasColumn(Lookup(db, out'.table), out'.key) )
        => ( /\ out'.msg # "Column dropped successfully"
             /\ db' = db ) ]_vars

\* C8: dropping the only column that is not the primary key is refused: the
\* table is unchanged and no success is reported.
C8_DropLastColumnRefused ==
    [][ ( /\ out'.op = "drop_column"
          /\ ~faulted'
          /\ HasColumn(Lookup(db, out'.table), out'.key)
          /\ \A j \in 1..Len(Lookup(db, out'.table).cols) :
                LET c == Lookup(db, out'.table).cols[j]
                IN  c.pk \/ c.name = out'.key
          /\ \E j \in 1..Len(Lookup(db, out'.table).cols) :
                LET c == Lookup(db, out'.table).cols[j]
                IN  ~c.pk /\ c.name = out'.key )
        => ( /\ out'.msg # "Column dropped successfully"
             /\ db' = db ) ]_vars

\* C9: an update changes only fields for which a value was entered, and only
\* in rows whose primary key equals the given value; every other field of every
\* row keeps its value, no row appears or disappears, and when nothing is
\* entered no statement runs (store and transaction state untouched).
C9_UpdateSparsePatch ==
    [][ out'.op = "update_record"
        => LET tn == out'.table
               before == Lookup(db, tn)
               after == Lookup(db', tn)
               k == IndexOfName(ColumnNames(before.cols), PrimaryKeyOf(before.cols))
           IN  /\ \A n \in TableNames : n # tn => db'[n] = db[n]
               /\ after.cols = before.cols
               /\ Len(after.rows) = Len(before.rows)
               /\ \A i \in 1..Len(before.rows) : \A j \in 1..Len(before.cols) :
                     after.rows[i][j] # before.rows[i][j]
                         => /\ out'.args # <<>>
                            /\ out'.args[j] # ""
                            /\ before.rows[i][k].k = "int"
                            /\ out'.key \in Numerals
                            /\ before.rows[i][k].n = IntOfStr(out'.key)
               /\ (\A j \in 1..Len(out'.args) : out'.args[j] = "")
                     => /\ db' = db
                        /\ disk' = disk
                        /\ in_transaction' = in_transaction
                        /\ out'.msg # "Record updated successfully" ]_vars

\* an update of one of two fields of the first of two rows has happened
C9_Witness ==
    /\ out.op = "update_record"
    /\ out.msg = "Record updated successfully"
    /\ out.key = "1"
    /\ out.args = <<"", "2", "">>
    /\ Len(db["t"].rows) = 2
    /\ db["t"].rows[1] = <<IntV(1), TextV("2"), IntV(1)>>
    /\ db["t"].rows[2] = <<IntV(2), TextV("1"), IntV(1)>>

\* C10: an update or delete whose key value matches no row reports no success
\* and leaves the table unchanged.
C10_MissingRecordRefused ==
    [][ ( /\ out'.op \in {"update_record", "delete_record"}
          /\ PrimaryKeyOf(Lookup(db, out'.table).cols) # ""
          /\ LET tbl == Lookup(db, out'.table)
                 k == IndexOfName(ColumnNames(tbl.cols), PrimaryKeyOf(tbl.cols))
             IN  \A i \in 1..Len(tbl.rows) :
                     ~(out'.key \in Numerals /\ tbl.rows[i][k].n = IntOfStr(out'.key)) )
        => ( /\ db' = db
             /\ out'.msg \notin {"Record updated successfully",
                                 "Record deleted successfully"} ) ]_vars

\* C11: every operation started from a menu, failing or not, ends at a menu:
\* the tool never stops in the middle of an operation, and it is at its end
\* only through the Exit choice of the main menu.
C11_DispatcherSurvivesFailures ==
    \/ screen \in {"main", "manage"}
    \/ screen = "exit" /\ out.op = "exit"

\* C12: creating a table goes past validation exactly when its name is a
\* non-empty run of ASCII letters, digits and underscores and at least one
\* column besides the primary key was entered; a name outside that class is
\* refused as invalid, a column list without a non-key column as insufficient,
\* and a refused creation leaves the store as it was.
C12_CreateTableValidates ==
    [][ out'.op = "create_new_table"
        => LET chars == NameChars(out'.table)
               matches == /\ chars # <<>>
                          /\ \A i \in 1..Len(chars) :
                                chars[i] \in {"lower", "upper", "digit", "underscore"}
               invalid == "Error: Table name must contain only letters, numbers, and underscores"
               insufficient == "Error: Table must have at least one column besides the primary key"
           IN  /\ matches <=> (out'.msg # invalid)
               /\ (matches /\ Len(out'.args) < 1) => out'.msg = insufficient
               /\ (matches /\ Len(out'.args) >= 1) => out'.msg \notin {invalid, insufficient}
               /\ out'.msg \in {invalid, insufficient} => (db' = db /\ disk' = disk) ]_vars

C14_FirstInsertGetsKeyOne ==
    [][ /\ ( /\ out'.op = "insert_record"
             /\ Len(Lookup(db, out'.table).cols) = 2
             /\ Lookup(db, out'.table).cols[1].pk
             /\ Lookup(db, out'.table).cols[1].type = "INTEGER"
             /\ Lookup(db, out'.table).cols[2].type = "TEXT"
             /\ Lookup(db, out'.table).rows = <<>>
             /\ out'.args[1] = "" )
           => ( /\ out'.msg = "Record inserted successfully"
                /\ db'[out'.table].rows = << <<IntV(1), TextV(out'.args[2])>> >>
                /\ db'[out'.table].cols = db[out'.table].cols
                /\ disk' = db' )
        /\ ( /\ out'.op = "view_table_data"
             /\ TableExists(db, out'.table) )
           => ( /\ out'.args = db[out'.table].rows
                /\ (out'.msg = "Data in table") <=> (out'.args # <<>>)
                /\ db' = db ) ]_vars

\* the insert of the example has happened: key left empty, text entered
C14_Witness ==
    /\ out.op = "insert_record"
    /\ out.args = <<"", "1">>
    /\ out.msg = "Record inserted successfully"
    /\ db[out.table].cols = <<Column("id", "INTEGER", TRUE), Column("a", "TEXT", FALSE)>>
    /\ db[out.table].rows = << <<IntV(1), TextV("1")>> >>

C16_NoTransactionAtMenu ==
    screen \in {"main", "manage"} => (~in_transaction /\ db = disk)

C18_RebuiltTableHasNoKey ==
    [][ /\ ( /\ out'.op \in {"rename_column", "drop_column"}
             /\ out'.msg \in {"Column renamed successfully", "Column dropped successfully"} )
           => /\ TableExists(db', out'.table)
              /\ PrimaryKeyOf(db'[out'.table].cols) = ""
        /\ \A n \in TableNames :
              ( /\ TableExists(db, n)
                /\ PrimaryKeyOf(db[n].cols) = ""
                /\ TableExists(db', n) )
              => PrimaryKeyOf(db'[n].cols) = ""
        /\ ( /\ out'.op \in {"update_record", "delete_record"}
             /\ TableExists(db, out'.table)
             /\ PrimaryKeyOf(db[out'.table].cols) = "" )
           => /\ out'.msg = "Error: No primary key found in table"
              /\ db' = db
              /\ disk' = disk ]_vars

\* Update record has been refused on a rebuilt table that holds rows
C18_Witness ==
    /\ out.op = "update_record"
    /\ out.msg = "Error: No primary key found in table"
    /\ TableExists(db, out.table)
    /\ db[out.table].cols[1] = Column("id", "INT", FALSE)
    /\ Len(db[out.table].rows) >= 1

====
